---------------------------- MODULE Spec2Model ----------------------------
(***************************************************************************)
(* yt-dlp-qt (src/yt_dlp_qt/main.py): the download worker thread, the job  *)
(* queue, the settings store and the main window controller.               *)
(*                                                                         *)
(* Texts typed by the user or read from the settings backend are sequences *)
(* of one-character strings, so that str.strip(), int() and json.loads()  *)
(* are computed character by character.  Python values are records         *)
(* [t |-> <type name>, v |-> <value>]; a raised exception is the value     *)
(* [t |-> "raise", v |-> <exception class>].                               *)
(***************************************************************************)
EXTENDS Integers, Sequences, FiniteSets, TLC

(***************************************************************************)
(* Bounds of the model.                                                    *)
(***************************************************************************)
\* jobs the user submits in one run
MaxJobs == 2
\* progress callbacks the engine makes during one download
MaxHooks == 1
\* length of the texts typed into the URL and expert-format fields
MaxTextLen == 2
\* length of the enumerated stored texts handed to _bool
MaxStoredLen == 3
\* largest byte count the engine reports in the progress-translation runs
MaxBytes == 24

(***************************************************************************)
(* main.py:19-22, the choices behind the combo boxes.                      *)
(***************************************************************************)
AUDIO_CODECS == <<"aac", "vorbis", "mp3", "opus", "wav">>
AUDIO_QUALITIES == <<0, 2, 5, 8>>
VIDEO_CONTAINERS == <<"mp4", "mkv", "3gp", "flv", "webm">>
VIDEO_RESOLUTIONS == <<2160, 1440, 1080, 720, 480>>

(***************************************************************************)
(* Python values.                                                          *)
(***************************************************************************)
PyNone == [t |-> "NoneType", v |-> "None"]
PyBool(b) == [t |-> "bool", v |-> b]
PyInt(n) == [t |-> "int", v |-> n]
PyStr(s) == [t |-> "str", v |-> s]
PyFloat(s) == [t |-> "float", v |-> s]
Raise(e) == [t |-> "raise", v |-> e]

(***************************************************************************)
(* Texts.                                                                  *)
(***************************************************************************)
Whitespace == {" "}
Digits == <<"0", "1", "2", "3", "4", "5", "6", "7", "8", "9">>

RECURSIVE SeqsUpTo(_, _)
\* every sequence over `chars` of length at most n
SeqsUpTo(chars, n) ==
    IF n = 0 THEN {<<>>}
    ELSE LET shorter == SeqsUpTo(chars, n - 1)
         IN shorter \cup {Append(s, c) : s \in shorter, c \in chars}

RECURSIVE lstrip(_)
lstrip(s) == IF s # <<>> /\ Head(s) \in Whitespace THEN lstrip(Tail(s)) ELSE s

RECURSIVE rstrip(_)
rstrip(s) ==
    IF s # <<>> /\ s[Len(s)] \in Whitespace
    THEN rstrip(SubSeq(s, 1, Len(s) - 1))
    ELSE s

\* str.strip()
strip(s) == rstrip(lstrip(s))

RECURSIVE Str(_)
\* the text as one string value
Str(s) == IF s = <<>> THEN "" ELSE Head(s) \o Str(Tail(s))

(***************************************************************************)
(* json.loads, as far as the stored settings texts reach: whitespace, the  *)
(* literals true, false and null, numbers and strings without escapes.     *)
(* Arrays, objects, NaN and Infinity start with characters outside the     *)
(* alphabet of the enumerated texts.                                       *)
(***************************************************************************)
IsDigit(c) == \E i \in 1..10 : Digits[i] = c

DigitValue(c) == (CHOOSE i \in 1..10 : Digits[i] = c) - 1

\* s[i:i+Len(lit)] == lit, with Python's slicing past the end
StartsWith(s, i, lit) ==
    /\ i + Len(lit) - 1 <= Len(s)
    /\ SubSeq(s, i, i + Len(lit) - 1) = lit

RECURSIVE SkipWhitespace(_, _)
\* the index after the whitespace that starts at i
SkipWhitespace(s, i) ==
    IF i <= Len(s) /\ s[i] \in Whitespace THEN SkipWhitespace(s, i + 1) ELSE i

RECURSIVE SkipDigits(_, _)
SkipDigits(s, i) ==
    IF i <= Len(s) /\ IsDigit(s[i]) THEN SkipDigits(s, i + 1) ELSE i

RECURSIVE DecimalValue(_)
DecimalValue(ds) ==
    IF ds = <<>> THEN 0
    ELSE 10 * DecimalValue(SubSeq(ds, 1, Len(ds) - 1)) + DigitValue(ds[Len(ds)])

\* the index after the closing quote of the string that opens at i - 1, or 0
RECURSIVE StringEnd(_, _)
StringEnd(s, i) ==
    IF i > Len(s) THEN 0
    ELSE IF s[i] = "\"" THEN i + 1
    ELSE StringEnd(s, i + 1)

NoValue == [ok |-> FALSE, val |-> PyNone, end |-> 0]

\* the end of the optional fraction \.[0-9]+ at j
FracEndOf(j, to) == IF to > j + 1 THEN to ELSE j

FracEnd(s, j) ==
    FracEndOf(j, IF j <= Len(s) /\ s[j] = "." THEN SkipDigits(s, j + 1) ELSE j)

\* the end of the optional exponent [eE][-+]?[0-9]+ at j
ExpEndOf(j, from, to) == IF to > from THEN to ELSE j

ExpDigits(s, j, from) == ExpEndOf(j, from, SkipDigits(s, from))

ExpEnd(s, j) ==
    IF j <= Len(s) /\ s[j] \in {"e", "E"}
    THEN ExpDigits(s, j, IF j + 1 <= Len(s) /\ s[j + 1] \in {"-", "+"} THEN j + 2 ELSE j + 1)
    ELSE j

\* the number matched from i to end - 1, whose integer part is d0 .. intEnd - 1
NumberValue(s, i, d0, intEnd, end) ==
    IF end > intEnd
    THEN [ok |-> TRUE, val |-> PyFloat(SubSeq(s, i, end - 1)), end |-> end]
    ELSE [ok |-> TRUE,
          val |-> PyInt(IF d0 > i THEN 0 - DecimalValue(SubSeq(s, d0, intEnd - 1))
                        ELSE DecimalValue(SubSeq(s, d0, intEnd - 1))),
          end |-> intEnd]

NumberInt(s, i, d0, intEnd) ==
    IF intEnd = d0 THEN NoValue
    ELSE NumberValue(s, i, d0, intEnd, ExpEnd(s, FracEnd(s, intEnd)))

\* the integer part (0|[1-9][0-9]*) at d0
NumberFrom(s, i, d0) ==
    NumberInt(s, i, d0, IF d0 <= Len(s) /\ s[d0] = "0" THEN d0 + 1 ELSE SkipDigits(s, d0))

\* NUMBER_RE (-?(?:0|[1-9][0-9]*))(\.[0-9]+)?([eE][-+]?[0-9]+)? matched at i
ScanNumber(s, i) == NumberFrom(s, i, IF s[i] = "-" THEN i + 1 ELSE i)

\* the string from the quote at i to the closing quote before e
StringValue(s, i, e) ==
    IF e = 0 THEN NoValue
    ELSE [ok |-> TRUE, val |-> PyStr(SubSeq(s, i + 1, e - 2)), end |-> e]

\* json.scanner.py_make_scanner._scan_once at index i
ScanOnce(s, i) ==
    IF i > Len(s) THEN NoValue
    ELSE IF s[i] = "\"" THEN StringValue(s, i, StringEnd(s, i + 1))
    ELSE IF StartsWith(s, i, <<"n", "u", "l", "l">>)
         THEN [ok |-> TRUE, val |-> PyNone, end |-> i + 4]
    ELSE IF StartsWith(s, i, <<"t", "r", "u", "e">>)
         THEN [ok |-> TRUE, val |-> PyBool(TRUE), end |-> i + 4]
    ELSE IF StartsWith(s, i, <<"f", "a", "l", "s", "e">>)
         THEN [ok |-> TRUE, val |-> PyBool(FALSE), end |-> i + 5]
    ELSE ScanNumber(s, i)

\* JSONDecoder.decode: the value scanned, unless text follows it
Decoded(s, r) ==
    IF ~r.ok THEN Raise("JSONDecodeError")
    ELSE IF SkipWhitespace(s, r.end) # Len(s) + 1 THEN Raise("JSONDecodeError")
    ELSE r.val

\* json.loads(value): the decoded value, or the exception it raises
json_loads(value) ==
    IF value.t # "str" THEN Raise("TypeError")
    ELSE Decoded(value.v, ScanOnce(value.v, SkipWhitespace(value.v, 1)))

S_true == <<"t", "r", "u", "e">>

\* what _bool returns when json.loads ended with r
BoolResult(value, r) ==
    IF r = Raise("JSONDecodeError") THEN PyBool(value = PyStr(S_true)) ELSE r

\* main.py:327-331
_bool(value) == BoolResult(value, json_loads(value))

(***************************************************************************)
(* IEEE 754 binary64 arithmetic of Worker._progress: int / int, float *    *)
(* 100 and int(float).  A float is [m |-> its 53 significand bits, most    *)
(* significant first, e |-> the exponent of the last bit]; zero has no     *)
(* bits.  Every operation rounds to nearest, ties to even.                 *)
(***************************************************************************)
MantissaBits == 53

RECURSIVE NatBits(_)
NatBits(n) == IF n = 0 THEN <<>> ELSE Append(NatBits(n \div 2), n % 2)

RECURSIVE BitsValue(_)
BitsValue(bits) ==
    IF bits = <<>> THEN 0
    ELSE 2 * BitsValue(SubSeq(bits, 1, Len(bits) - 1)) + bits[Len(bits)]

RECURSIVE Pow2(_)
Pow2(n) == IF n = 0 THEN 1 ELSE 2 * Pow2(n - 1)

RECURSIVE RemAfter(_, _, _)
\* the remainder of the long division r / t (r < t) after i bits
RemAfter(r, t, i) == IF i = 0 THEN r ELSE (2 * RemAfter(r, t, i - 1)) % t

\* the first n bits of r / t (r < t)
FracBits(r, t, n) == [i \in 1..n |-> IF 2 * RemAfter(r, t, i - 1) >= t THEN 1 ELSE 0]

RECURSIVE LeadingZeros(_, _)
\* the zero bits that r / t (0 < r < t) starts with
LeadingZeros(r, t) == IF 2 * r >= t THEN 0 ELSE 1 + LeadingZeros(2 * r, t)

\* bits with the zero at k set and the ones after it cleared
CarryInto(bits, k) ==
    [i \in 1..Len(bits) |-> IF i < k THEN bits[i] ELSE IF i = k THEN 1 ELSE 0]

LastOf(S) == CHOOSE i \in S : \A j \in S : j <= i

\* bits + 1
Increment(bits) ==
    IF \A i \in 1..Len(bits) : bits[i] = 1 THEN <<1>> \o [i \in 1..Len(bits) |-> 0]
    ELSE CarryInto(bits, LastOf({i \in 1..Len(bits) : bits[i] = 0}))

\* a significand that the increment made one bit longer loses its last bit
Renormalized(m, e) ==
    IF Len(m) > MantissaBits THEN [m |-> SubSeq(m, 1, MantissaBits), e |-> e + 1]
    ELSE [m |-> m, e |-> e]

\* round to nearest even: bits are kept, guard is the first bit dropped, sticky
\* tells whether any later bit is set; e is the exponent of the last bit kept
RoundNearestEven(bits, e, guard, sticky) ==
    Renormalized(IF guard = 1 /\ (sticky \/ bits[Len(bits)] = 1)
                 THEN Increment(bits) ELSE bits, e)

FloatZero == [m |-> <<>>, e |-> 0]

\* the quotient rounded from its first n + Len(lead) bits and the remainder
DivRounded(lead, r0, t, n, z, rem) ==
    RoundNearestEven(lead \o FracBits(r0, t, n), 0 - (z + n),
                     IF 2 * rem >= t THEN 1 ELSE 0, (2 * rem) % t # 0)

\* the quotient whose integer part is lead and whose fraction r / t starts
\* with z zero bits that are not kept
DivBits(lead, r, t, n, z) ==
    DivRounded(lead, r * Pow2(z), t, n, z, RemAfter(r * Pow2(z), t, n))

DivParts(q, r, t) ==
    DivBits(NatBits(q), r, t, MantissaBits - Len(NatBits(q)),
            IF q > 0 \/ r = 0 THEN 0 ELSE LeadingZeros(r, t))

\* d / t for ints d >= 0, t > 0: the correctly rounded quotient
TrueDiv(d, t) == IF d = 0 THEN FloatZero ELSE DivParts(d \div t, d % t, t)

RECURSIVE MulCarry(_, _, _)
\* the carry into bit j (0 is the last bit) of bits * k
MulCarry(bits, k, j) ==
    IF j = 0 THEN 0
    ELSE (bits[Len(bits) - j + 1] * k + MulCarry(bits, k, j - 1)) \div 2

\* bits * k, exactly
MulSmall(bits, k) ==
    NatBits(MulCarry(bits, k, Len(bits)))
        \o [i \in 1..Len(bits) |-> (bits[i] * k + MulCarry(bits, k, Len(bits) - i)) % 2]

\* the product p, whose last bit has exponent e, rounded to a float
ProductRounded(p, e) ==
    IF Len(p) = MantissaBits THEN [m |-> p, e |-> e]
    ELSE RoundNearestEven(SubSeq(p, 1, MantissaBits), e + Len(p) - MantissaBits,
                          p[MantissaBits + 1],
                          \E i \in (MantissaBits + 2)..Len(p) : p[i] = 1)

\* x * k for a float x and a small int k >= 1
FloatMul(x, k) ==
    IF x = FloatZero THEN FloatZero ELSE ProductRounded(MulSmall(x.m, k), x.e)

\* int(x) for a float x >= 0: truncation
FloatToInt(x) ==
    IF x = FloatZero THEN 0
    ELSE IF x.e >= 0 THEN BitsValue(x.m) * Pow2(x.e)
    ELSE IF Len(x.m) + x.e <= 0 THEN 0
    ELSE BitsValue(SubSeq(x.m, 1, Len(x.m) + x.e))

(***************************************************************************)
(* Worker._progress, main.py:96-104: the events one progress callback      *)
(* emits.  A key the engine left out of info is Missing (KeyError), a      *)
(* value of None is PyNone (TypeError), a total of 0 divides by zero; the  *)
(* except clause swallows all three.                                       *)
(***************************************************************************)
Missing == [t |-> "missing", v |-> "missing"]

ProgressEvent(n) == [kind |-> "progress", v |-> n]

\* int(progress * 100) where progress = downloaded_bytes / total_bytes
Percent(d, t) == FloatToInt(FloatMul(TrueDiv(d, t), 100))

_progress(info) ==
    IF info.status = "downloading"
    THEN IF /\ info.downloaded_bytes.t = "int"
            /\ info.total_bytes.t = "int"
            /\ info.total_bytes.v # 0
         THEN <<ProgressEvent(Percent(info.downloaded_bytes.v, info.total_bytes.v))>>
         ELSE <<>>
    ELSE IF info.status = "finished" THEN <<ProgressEvent(100)>>
    ELSE <<>>

(***************************************************************************)
(* The settings backend (QSettings): store is what is on disk, cache the   *)
(* values set and not yet synced.                                          *)
(***************************************************************************)
Keys ==
    {"video/resolution", "video/format", "audio/quality", "audio/format",
     "audio/only", "output/path", "output/name", "clipboard/monitor",
     "expert/format", "window/x", "window/y", "window/width", "window/height",
     "url/last"}

BoolKeys == {"audio/only", "clipboard/monitor"}

Absent == [t |-> "absent", v |-> "absent"]

NoSettings == [k \in Keys |-> Absent]

\* QSettings.value(key, default)
ConfigValue(cache, store, key, default) ==
    IF cache[key] # Absent THEN cache[key]
    ELSE IF store[key] # Absent THEN store[key]
    ELSE default

\* int() of the digits ds that follow the sign
IntOfDigits(negative, ds) ==
    IF ds # <<>> /\ \A i \in 1..Len(ds) : IsDigit(ds[i])
    THEN PyInt(IF negative THEN 0 - DecimalValue(ds) ELSE DecimalValue(ds))
    ELSE Raise("ValueError")

\* int() of a stripped text
IntOfText(s) ==
    IF s # <<>> /\ s[1] \in {"-", "+"} THEN IntOfDigits(s[1] = "-", Tail(s))
    ELSE IntOfDigits(FALSE, s)

\* int(x) of a Python value
py_int(x) ==
    IF x.t = "int" THEN x
    ELSE IF x.t = "bool" THEN PyInt(IF x.v THEN 1 ELSE 0)
    ELSE IF x.t = "str" THEN IntOfText(strip(x.v))
    ELSE Raise("TypeError")

\* the bool a PySide6 slot parameter takes from a Python argument: a number
\* converts, anything else is a TypeError
qt_bool(x) ==
    IF x.t = "bool" THEN x
    ELSE IF x.t = "int" THEN PyBool(x.v # 0)
    ELSE IF x.t = "raise" THEN x
    ELSE Raise("TypeError")

\* the text a PySide6 slot parameter takes: a str
qt_text(x) == IF x.t = "str" THEN x ELSE Raise("TypeError")

S_home == <<"~">>
S_downloads == <<"~", "/", "D", "o", "w", "n", "l", "o", "a", "d", "s">>
S_output_name ==
    <<"%", "(", "t", "i", "t", "l", "e", ")", "s", ".", "%", "(", "e", "x", "t", ")", "s">>

\* main.py:334-338
_get_download_location(downloadsIsDir) ==
    IF downloadsIsDir THEN PyStr(S_downloads) ELSE PyStr(S_home)

\* a widget state that the UI description file sets, before apply_config
FromUiFile == [t |-> "ui-file", v |-> "ui-file"]

\* the window as loadUi leaves it, before apply_config has run (main.py:120-124)
BlankWindow ==
    [video_resolution |-> FromUiFile, video_format |-> FromUiFile,
     audio_quality |-> FromUiFile, audio_format |-> FromUiFile,
     audio_only |-> FromUiFile, output_path |-> FromUiFile,
     output_name |-> FromUiFile, monitor_clipboard |-> FromUiFile,
     own_format |-> FromUiFile, geometry |-> FromUiFile, last_url |-> PyStr(<<>>),
     url |-> <<>>, download_enabled |-> FromUiFile, status |-> "",
     progress |-> FromUiFile]

\* the statements of apply_config before setGeometry, in order: the widget, the
\* key, the default and the conversion between value() and the setter
ApplySteps(downloadsIsDir) ==
    << [w |-> "video_resolution", key |-> "video/resolution", default |-> PyInt(2), conv |-> "int"],
       [w |-> "video_format", key |-> "video/format", default |-> PyInt(0), conv |-> "int"],
       [w |-> "audio_quality", key |-> "audio/quality", default |-> PyInt(0), conv |-> "int"],
       [w |-> "audio_format", key |-> "audio/format", default |-> PyInt(0), conv |-> "int"],
       [w |-> "audio_only", key |-> "audio/only", default |-> PyBool(FALSE), conv |-> "bool"],
       [w |-> "output_path", key |-> "output/path",
        default |-> _get_download_location(downloadsIsDir), conv |-> "text"],
       [w |-> "output_name", key |-> "output/name", default |-> PyStr(S_output_name), conv |-> "text"],
       [w |-> "monitor_clipboard", key |-> "clipboard/monitor", default |-> PyBool(FALSE), conv |-> "bool"],
       [w |-> "own_format", key |-> "expert/format", default |-> PyStr(<<>>), conv |-> "text"] >>

\* a step of kind bool: the call of _bool, and what setChecked makes of it
ConvertBool(x, ret) == [calls |-> <<[arg |-> x, ret |-> ret]>>, val |-> qt_bool(ret)]

\* the argument a step hands to its setter, or the exception raised on the way,
\* and the call of _bool made for it
Convert(conv, x) ==
    IF conv = "int" THEN [calls |-> <<>>, val |-> py_int(x)]
    ELSE IF conv = "bool" THEN ConvertBool(x, _bool(x))
    ELSE [calls |-> <<>>, val |-> qt_text(x)]

RECURSIVE ApplyFrom(_, _, _, _, _, _)
RECURSIVE ApplyStep(_, _, _, _, _, _, _)
\* step i of apply_config with its converted value c, and the steps after it
ApplyStep(win, calls, i, steps, cache, store, c) ==
    IF c.val.t = "raise"
    THEN [win |-> win, error |-> c.val.v, calls |-> calls \o c.calls]
    ELSE ApplyFrom([win EXCEPT ![steps[i].w] = c.val], calls \o c.calls, i + 1,
                   steps, cache, store)

\* the window after steps i.. of apply_config; error is the exception that ended
\* it, calls the calls of _bool made
ApplyFrom(win, calls, i, steps, cache, store) ==
    IF i > Len(steps) THEN [win |-> win, error |-> "none", calls |-> calls]
    ELSE ApplyStep(win, calls, i, steps, cache, store,
                   Convert(steps[i].conv,
                           ConfigValue(cache, store, steps[i].key, steps[i].default)))

\* self.setGeometry(int(...), int(...), int(...), int(...)); self.last_url = ...
SetGeometry(a, x, y, width, height, last_url) ==
    IF x.t = "raise" THEN [a EXCEPT !.error = x.v]
    ELSE IF y.t = "raise" THEN [a EXCEPT !.error = y.v]
    ELSE IF width.t = "raise" THEN [a EXCEPT !.error = width.v]
    ELSE IF height.t = "raise" THEN [a EXCEPT !.error = height.v]
    ELSE [a EXCEPT !.win.geometry = <<x.v, y.v, width.v, height.v>>,
                   !.win.last_url = last_url]

\* the end of apply_config after the steps that ended as a
ApplyGeometry(a, cache, store) ==
    IF a.error # "none" THEN a
    ELSE SetGeometry(a,
                     py_int(ConfigValue(cache, store, "window/x", PyInt(0))),
                     py_int(ConfigValue(cache, store, "window/y", PyInt(0))),
                     py_int(ConfigValue(cache, store, "window/width", PyInt(440))),
                     py_int(ConfigValue(cache, store, "window/height", PyInt(440))),
                     ConfigValue(cache, store, "url/last", PyStr(<<>>)))

\* main.py:269-301
apply_config(win, cache, store, downloadsIsDir) ==
    ApplyGeometry(ApplyFrom(win, <<>>, 1, ApplySteps(downloadsIsDir), cache, store),
                  cache, store)

\* the values dump_config hands to setValue, main.py:304-323
DumpedSettings(win) ==
    [k \in Keys |->
        CASE k = "video/resolution" -> win.video_resolution
          [] k = "video/format" -> win.video_format
          [] k = "audio/quality" -> win.audio_quality
          [] k = "audio/format" -> win.audio_format
          [] k = "audio/only" -> win.audio_only
          [] k = "output/path" -> win.output_path
          [] k = "output/name" -> win.output_name
          [] k = "clipboard/monitor" -> win.monitor_clipboard
          [] k = "expert/format" -> win.own_format
          [] k = "window/x" -> PyInt(win.geometry[1])
          [] k = "window/y" -> PyInt(win.geometry[2])
          [] k = "window/width" -> PyInt(win.geometry[3])
          [] k = "window/height" -> PyInt(win.geometry[4])
          [] OTHER -> win.last_url]

\* QSettings.sync(): what is on disk after the cached values are written
Synced(cache, store) == [k \in Keys |-> IF cache[k] # Absent THEN cache[k] ELSE store[k]]

\* dump_config without its last statement, self.config.sync()
dump_config_unsynced(win, cache, store) ==
    [cache |-> DumpedSettings(win), store |-> store]

\* main.py:303-324: every setValue, then sync
dump_config(win, cache, store) ==
    [cache |-> NoSettings, store |-> Synced(DumpedSettings(win), store)]

(***************************************************************************)
(* The options of a job, main.py:230-267.                                  *)
(***************************************************************************)
Extend(f, g) == [k \in DOMAIN f \cup DOMAIN g |-> IF k \in DOMAIN g THEN g[k] ELSE f[k]]

_get_audio_options(win) ==
    LET codec == AUDIO_CODECS[win.audio_format.v + 1]
        quality == AUDIO_QUALITIES[win.audio_quality.v + 1]
    IN  [format |-> codec \o "/bestaudio/best",
         postprocessors |-> << [key |-> "FFmpegExtractAudio",
                                preferredcodec |-> codec,
                                preferredquality |-> quality] >>]

_get_video_options(win) ==
    LET container == VIDEO_CONTAINERS[win.video_format.v + 1]
        resolution == ToString(VIDEO_RESOLUTIONS[win.video_resolution.v + 1])
        audio_codec == IF container = "mp4" THEN "m4a" ELSE "bestaudio"
    IN  [format |-> container \o "[height=" \o resolution \o "]+" \o audio_codec
                    \o "/bestvideo[height<=" \o resolution \o "]+bestaudio"]

\* get_ytdlp_options with the override taken as typed, not stripped
get_ytdlp_options_unstripped(win) ==
    LET options == IF win.audio_only.v THEN _get_audio_options(win)
                   ELSE _get_video_options(win)
        text == win.own_format.v
    IN  Extend(IF text # <<>> THEN [options EXCEPT !.format = Str(text)] ELSE options,
               [paths |-> [home |-> Str(win.output_path.v)],
                outtmpl |-> [default |-> Str(win.output_name.v)]])

get_ytdlp_options(win) ==
    LET options == IF win.audio_only.v THEN _get_audio_options(win)
                   ELSE _get_video_options(win)
        text == strip(win.own_format.v)
    IN  Extend(IF text # <<>> THEN [options EXCEPT !.format = Str(text)] ELSE options,
               [paths |-> [home |-> Str(win.output_path.v)],
                outtmpl |-> [default |-> Str(win.output_name.v)]])

(***************************************************************************)
(* The program: the UI thread (main, YtDlpQt) and the worker thread.       *)
(***************************************************************************)
VARIABLES
    store,          \* the settings on disk
    cache,          \* the settings set and not yet synced
    downloadsIsDir, \* whether ~/Downloads is a directory
    trayAvailable,  \* QSystemTrayIcon.isSystemTrayAvailable()
    win,            \* the widgets and attributes of the main window
    tray,           \* window.tray: "None" or "icon"
    uiPc,           \* where the UI thread is
    exitedBy,       \* what ended the event loop
    queue,          \* the job queue
    shutdown,       \* the shutdown Event
    wpc,            \* where the worker thread is
    job,            \* the job the worker dequeued last
    info,           \* what extract_info returned for it
    hooksLeft,      \* progress callbacks the engine may still make for it
    signals,        \* events emitted and not yet delivered to the UI thread
    emitted,        \* history: the events emitted for the job dequeued last
    submitted,      \* history: the number of jobs put on the queue
    taken,          \* history: the ids of the jobs the worker dequeued
    failed,         \* history: the ids of the jobs for which the engine raised
    lastHook,       \* history: the last progress callback of the download under way, and what it emitted
    lastSlot,       \* history: the last event delivered and how its slot ended
    boolCalls       \* history: the calls of _bool made so far

vars ==
    <<store, cache, downloadsIsDir, trayAvailable, win, tray, uiPc, exitedBy, queue,
      shutdown, wpc, job, info, hooksLeft, signals, emitted, submitted, taken,
      failed, lastHook, lastSlot, boolCalls>>

uiVars == <<store, cache, win, tray, uiPc, exitedBy, lastSlot, boolCalls>>
workerVars == <<wpc, job, info, hooksLeft, emitted, taken, failed, lastHook>>
envVars == <<downloadsIsDir, trayAvailable>>

\* the settings a previous run left on disk, as the INI backend returns them
SavedSettings ==
    [k \in Keys |->
        CASE k \in {"video/resolution", "audio/quality"} -> PyStr(<<"1">>)
          [] k \in {"video/format", "audio/format", "window/x", "window/y"} -> PyStr(<<"0">>)
          [] k \in BoolKeys -> PyStr(<<"f", "a", "l", "s", "e">>)
          [] k = "output/path" -> PyStr(S_home)
          [] k = "output/name" -> PyStr(S_output_name)
          [] k \in {"window/width", "window/height"} -> PyStr(<<"4", "4", "0">>)
          [] OTHER -> PyStr(<<>>)]

NoJob == [url |-> "", options |-> <<>>, id |-> 0]
NoInfo == [title |-> Missing]
NoHook == [info |-> [status |-> "none"], out |-> <<>>]
NoSlot == [ev |-> [kind |-> "none"], raised |-> "none"]

\* the state when main() starts
InitWith(stores, trays, dirs) ==
    /\ store \in stores
    /\ cache = NoSettings
    /\ downloadsIsDir \in dirs
    /\ trayAvailable \in trays
    /\ win = BlankWindow
    /\ tray = "None"
    /\ uiPc = "construct"
    /\ exitedBy = "none"
    /\ queue = <<>>
    /\ shutdown = FALSE
    /\ wpc = "unstarted"
    /\ job = NoJob
    /\ info = NoInfo
    /\ hooksLeft = 0
    /\ signals = <<>>
    /\ emitted = <<>>
    /\ submitted = 0
    /\ taken = <<>>
    /\ failed = {}
    /\ lastHook = NoHook
    /\ lastSlot = NoSlot
    /\ boolCalls = <<>>

Init == InitWith({SavedSettings, NoSettings}, BOOLEAN, {TRUE})

\* the process is running: main() has neither raised nor returned
ProcessAlive == uiPc \notin {"crashed", "exited"}

\* YtDlpQt.__init__ once apply_config has ended as a
Constructed(a) ==
    /\ boolCalls' = a.calls
    /\ IF a.error # "none"
       THEN /\ win' = a.win
            /\ uiPc' = "crashed"
            /\ exitedBy' = a.error
            /\ wpc' = wpc
       ELSE /\ win' = [a.win EXCEPT !.download_enabled = FALSE]
            /\ uiPc' = "constructed"
            /\ exitedBy' = exitedBy
            /\ wpc' = "check"

\* YtDlpQt.__init__, main.py:118-152: apply_config, then the queue, the event
\* and the worker, which is started; _check_url() disables the download button.
\* An exception of apply_config leaves main() and ends the process.
Construct ==
    /\ uiPc = "construct"
    /\ Constructed(apply_config(win, cache, store, downloadsIsDir))
    /\ UNCHANGED <<store, cache, tray, lastSlot, queue, shutdown, job, info, hooksLeft,
                   signals, emitted, submitted, taken, failed, lastHook>>
    /\ UNCHANGED envVars

\* main(), main.py:343-360: the tray icon when the system has a tray, then the
\* event loop
MainSetup ==
    /\ uiPc = "constructed"
    /\ tray' = IF trayAvailable THEN "icon" ELSE "None"
    /\ uiPc' = "loop"
    /\ UNCHANGED <<store, cache, win, exitedBy, lastSlot, boolCalls, queue, shutdown,
                   signals, submitted>>
    /\ UNCHANGED workerVars
    /\ UNCHANGED envVars

\* the user edits the URL field; textChanged runs _check_url, main.py:186-187
UrlTexts == {<<" ">>, <<" ", "u", " ">>}

_check_url(text) ==
    /\ uiPc = "loop"
    /\ text # win.url
    /\ win' = [win EXCEPT !.url = text, !.download_enabled = strip(text) # <<>>]
    /\ UNCHANGED <<store, cache, tray, uiPc, exitedBy, lastSlot, boolCalls, queue,
                   shutdown, signals, submitted>>
    /\ UNCHANGED workerVars
    /\ UNCHANGED envVars

\* a queue that hands out the newest item first
put_front(q, item) == <<item>> \o q

\* Queue.put on the unbounded FIFO queue: the item goes to the end, and
\* Queue.get takes from the front
put(q, item) == Append(q, item)

\* main.py:206-210, the slot of the download button's clicked signal; the button
\* is clicked only while it is enabled
start_download ==
    /\ uiPc = "loop"
    /\ win.download_enabled = TRUE
    /\ submitted < MaxJobs
    /\ LET url == strip(win.url)
       IN  IF url = <<>>
           THEN UNCHANGED <<queue, submitted>>
           ELSE /\ queue' = put(queue, [url |-> Str(url),
                                        options |-> get_ytdlp_options(win),
                                        id |-> submitted + 1])
                /\ submitted' = submitted + 1
    /\ UNCHANGED <<shutdown, signals>>
    /\ UNCHANGED uiVars
    /\ UNCHANGED workerVars
    /\ UNCHANGED envVars

\* main.py:212-217: self.tray.showMessage comes first, and tray may be None
download_started(title) ==
    IF tray = "None" THEN [raised |-> "AttributeError", win |-> win]
    ELSE [raised |-> "none",
          win |-> [win EXCEPT !.status = "Downloading: " \o title,
                              !.progress = PyInt(1)]]

\* main.py:219-225
download_finished(title) ==
    IF tray = "None" THEN [raised |-> "AttributeError", win |-> win]
    ELSE [raised |-> "none", win |-> [win EXCEPT !.status = "Finished: " \o title]]

\* main.py:227-228
download_progress(progress) ==
    [raised |-> "none", win |-> [win EXCEPT !.progress = PyInt(progress)]]

\* the slot connected to the signal of ev, main.py:145-147
Slot(ev) ==
    IF ev.kind = "started" THEN download_started(ev.v)
    ELSE IF ev.kind = "finished" THEN download_finished(ev.v)
    ELSE download_progress(ev.v)

\* the slot of ev ended as r
Delivered(ev, r) ==
    /\ win' = r.win
    /\ lastSlot' = [ev |-> ev, raised |-> r.raised]

\* the event loop delivers the oldest pending worker signal to its slot; an
\* exception of a slot is printed and the loop goes on
Deliver ==
    /\ uiPc = "loop"
    /\ signals # <<>>
    /\ Delivered(Head(signals), Slot(Head(signals)))
    /\ signals' = Tail(signals)
    /\ UNCHANGED <<store, cache, tray, uiPc, exitedBy, boolCalls, queue, shutdown,
                   submitted>>
    /\ UNCHANGED workerVars
    /\ UNCHANGED envVars

\* the last window is closed and there is no tray icon: quitOnLastWindowClosed
\* is left on (main.py:344-345), the event loop ends and the process exits
CloseWindow ==
    /\ uiPc = "loop"
    /\ tray = "None"
    /\ uiPc' = "exited"
    /\ exitedBy' = "lastWindowClosed"
    /\ UNCHANGED <<store, cache, win, tray, lastSlot, boolCalls, queue, shutdown,
                   signals, submitted>>
    /\ UNCHANGED workerVars
    /\ UNCHANGED envVars

(***************************************************************************)
(* YtDlpQt._quit, main.py:154-161, statement by statement: worker.wait()   *)
(* blocks the UI thread while the worker thread runs on.                   *)
(***************************************************************************)
\* self.dump_config(); self.hide()
_quit_dump_config ==
    /\ uiPc = "loop"
    /\ LET d == dump_config(win, cache, store)
       IN  /\ cache' = d.cache
           /\ store' = d.store
    /\ uiPc' = "quit_set"
    /\ UNCHANGED <<win, tray, exitedBy, lastSlot, boolCalls, queue, shutdown, signals,
                   submitted>>
    /\ UNCHANGED workerVars
    /\ UNCHANGED envVars

\* self.shutdown.set()
_quit_shutdown_set ==
    /\ uiPc = "quit_set"
    /\ shutdown' = TRUE
    /\ uiPc' = "quit_wait"
    /\ UNCHANGED <<store, cache, win, tray, exitedBy, lastSlot, boolCalls, queue,
                   signals, submitted>>
    /\ UNCHANGED workerVars
    /\ UNCHANGED envVars

\* the worker thread has ended: run() returned, or an exception left it
WorkerEnded == wpc \in {"terminated", "crashed"}

\* self.worker.wait() returns once the thread has ended; self.worker.quit()
_quit_wait ==
    /\ uiPc = "quit_wait"
    /\ WorkerEnded
    /\ uiPc' = "quit_app"
    /\ UNCHANGED <<store, cache, win, tray, exitedBy, lastSlot, boolCalls, queue,
                   shutdown, signals, submitted>>
    /\ UNCHANGED workerVars
    /\ UNCHANGED envVars

\* app.quit(): the event loop ends and main() exits
_quit_app_quit ==
    /\ uiPc = "quit_app"
    /\ uiPc' = "exited"
    /\ exitedBy' = "quit"
    /\ UNCHANGED <<store, cache, win, tray, lastSlot, boolCalls, queue, shutdown,
                   signals, submitted>>
    /\ UNCHANGED workerVars
    /\ UNCHANGED envVars

(***************************************************************************)
(* Worker.run, main.py:88-94, and Worker._download, main.py:106-113.       *)
(***************************************************************************)
Event(kind, v) == [kind |-> kind, v |-> v, job |-> job.id]

\* a worker that never looks at the shutdown event
ShutdownSeen_never == FALSE

\* self.shutdown.is_set()
ShutdownSeen == shutdown

\* while not self.shutdown.is_set()
w_check ==
    /\ ProcessAlive
    /\ wpc = "check"
    /\ wpc' = IF ShutdownSeen THEN "terminated" ELSE "get"
    /\ UNCHANGED <<job, info, hooksLeft, emitted, taken, failed, lastHook>>
    /\ UNCHANGED <<queue, shutdown, signals, submitted>>
    /\ UNCHANGED uiVars
    /\ UNCHANGED envVars

\* self.queue.get(timeout=1.5) returns the oldest job
w_get ==
    /\ ProcessAlive
    /\ wpc = "get"
    /\ queue # <<>>
    /\ job' = Head(queue)
    /\ queue' = Tail(queue)
    /\ taken' = Append(taken, Head(queue).id)
    /\ emitted' = <<>>
    /\ wpc' = "probe"
    /\ UNCHANGED <<info, hooksLeft, failed, lastHook>>
    /\ UNCHANGED <<shutdown, signals, submitted>>
    /\ UNCHANGED uiVars
    /\ UNCHANGED envVars

\* the get times out on the empty queue: Empty is raised and caught
w_timeout ==
    /\ ProcessAlive
    /\ wpc = "get"
    /\ queue = <<>>
    /\ wpc' = "check"
    /\ UNCHANGED <<job, info, hooksLeft, emitted, taken, failed, lastHook>>
    /\ UNCHANGED <<queue, shutdown, signals, submitted>>
    /\ UNCHANGED uiVars
    /\ UNCHANGED envVars

\* what extract_info can return: a title, or no title key
Titles == {"T"}
ProbeInfos == {[title |-> PyStr(t)] : t \in Titles} \cup {[title |-> Missing]}

\* info["title"], a KeyError-free lookup without the default
title_of_no_default(i) == IF i.title = Missing THEN "" ELSE i.title.v

\* info.get("title", _("unknown title"))
title_of(i) == IF i.title = Missing THEN "unknown title" ELSE i.title.v

\* ydl.extract_info(url, download=False) returns; started is emitted
w_probe(i) ==
    /\ ProcessAlive
    /\ wpc = "probe"
    /\ info' = i
    /\ emitted' = Append(emitted, Event("started", title_of(i)))
    /\ signals' = Append(signals, Event("started", title_of(i)))
    /\ hooksLeft' = MaxHooks
    /\ wpc' = "download"
    /\ UNCHANGED <<job, taken, failed, lastHook>>
    /\ UNCHANGED <<queue, shutdown, submitted>>
    /\ UNCHANGED uiVars
    /\ UNCHANGED envVars

\* the engine raises, in extract_info or in download: run() catches only Empty,
\* so the exception leaves run() and the thread ends
w_engine_error ==
    /\ ProcessAlive
    /\ wpc \in {"probe", "download"}
    /\ failed' = failed \cup {job.id}
    /\ wpc' = "crashed"
    /\ UNCHANGED <<job, info, hooksLeft, emitted, taken, lastHook>>
    /\ UNCHANGED <<queue, shutdown, signals, submitted>>
    /\ UNCHANGED uiVars
    /\ UNCHANGED envVars

\* the events of a callback, as they are emitted for the current job
Emitted(h, out) ==
    /\ emitted' = emitted \o [i \in 1..Len(out) |-> Event(out[i].kind, out[i].v)]
    /\ signals' = signals \o [i \in 1..Len(out) |-> Event(out[i].kind, out[i].v)]
    /\ lastHook' = [info |-> h, out |-> out]

\* during ydl.download the engine calls the progress hook
w_hook(h) ==
    /\ ProcessAlive
    /\ wpc = "download"
    /\ hooksLeft > 0
    /\ hooksLeft' = hooksLeft - 1
    /\ Emitted(h, _progress(h))
    /\ UNCHANGED <<wpc, job, info, taken, failed>>
    /\ UNCHANGED <<queue, shutdown, submitted>>
    /\ UNCHANGED uiVars
    /\ UNCHANGED envVars

\* ydl.download([url]) returns; finished is emitted and run() loops
w_download_done ==
    /\ ProcessAlive
    /\ wpc = "download"
    /\ emitted' = Append(emitted, Event("finished", title_of(info)))
    /\ signals' = Append(signals, Event("finished", title_of(info)))
    /\ wpc' = "check"
    /\ lastHook' = NoHook
    /\ UNCHANGED <<job, info, hooksLeft, taken, failed>>
    /\ UNCHANGED <<queue, shutdown, submitted>>
    /\ UNCHANGED uiVars
    /\ UNCHANGED envVars

HookInfo(status, d, t) == [status |-> status, downloaded_bytes |-> d, total_bytes |-> t]

\* the progress reports of the runs of the whole program: a report without the
\* total size, and the report that ends a file
HookInfos ==
    {HookInfo("downloading", PyInt(1), PyNone),
     HookInfo("finished", PyInt(2), PyInt(2))}

WorkerStep ==
    \/ w_check
    \/ w_get
    \/ w_timeout
    \/ \E i \in ProbeInfos : w_probe(i)
    \/ w_engine_error
    \/ \E h \in HookInfos : w_hook(h)
    \/ w_download_done

\* the statements of _quit after dump_config
QuitRuns ==
    \/ _quit_shutdown_set
    \/ _quit_wait
    \/ _quit_app_quit

QuitStep ==
    \/ _quit_dump_config
    \/ QuitRuns

Next ==
    \/ Construct
    \/ MainSetup
    \/ \E text \in UrlTexts : _check_url(text)
    \/ start_download
    \/ Deliver
    \/ CloseWindow
    \/ QuitStep
    \/ WorkerStep

Spec == Init /\ [][Next]_vars

(***************************************************************************)
(* The same program under weak fairness of the two threads: the worker     *)
(* thread takes a step it can take, the engine calls it makes return, and  *)
(* a _quit that has begun runs on.  Nothing makes the user quit.           *)
(***************************************************************************)
FairSpec == Spec /\ WF_vars(WorkerStep) /\ WF_vars(QuitRuns)

(***************************************************************************)
(* Start-up over the settings a backend can hold: every set of absent      *)
(* keys, and every enumerated stored value under a bool key.               *)
(***************************************************************************)
StoredChars == {"t", "r", "u", "e", "1", " ", "\""}

StoredTexts ==
    SeqsUpTo(StoredChars, MaxStoredLen)
        \cup {S_true, <<"f", "a", "l", "s", "e">>, <<"n", "u", "l", "l">>, <<"0">>,
              <<"T", "r", "u", "e">>, <<" ", "t", "r", "u", "e", " ">>,
              <<"\"", "t", "r", "u", "e", "\"">>, <<"1", "e", "1">>, <<"-", "1">>}

\* what value() returns for a stored bool: text from the INI file, or the value
\* of a backend that keeps the type
StoredBools ==
    {PyStr(t) : t \in StoredTexts} \cup {PyBool(TRUE), PyBool(FALSE), PyInt(1)}

ConfigStores ==
    {[k \in Keys |-> IF k \in A THEN Absent ELSE SavedSettings[k]] : A \in SUBSET Keys}
        \cup {[SavedSettings EXCEPT ![k] = b] : k \in BoolKeys, b \in StoredBools}

InitConfig == InitWith(ConfigStores, {TRUE}, BOOLEAN)

NextConfig == Construct

SpecConfig == InitConfig /\ [][NextConfig]_vars

(***************************************************************************)
(* Jobs submitted from every selection of the format widgets, which        *)
(* apply_config restores from the settings of the previous run.            *)
(***************************************************************************)
OverrideTexts == SeqsUpTo({" ", "b"}, MaxTextLen)

IndexText(i) == PyStr(<<Digits[i + 1]>>)

OptionStores ==
    {[SavedSettings EXCEPT
         !["video/resolution"] = IndexText(r),
         !["video/format"] = IndexText(f),
         !["audio/quality"] = IndexText(q),
         !["audio/format"] = IndexText(c),
         !["audio/only"] = PyStr(a),
         !["expert/format"] = PyStr(o)] :
        r \in 0..(Len(VIDEO_RESOLUTIONS) - 1), f \in 0..(Len(VIDEO_CONTAINERS) - 1),
        q \in 0..(Len(AUDIO_QUALITIES) - 1), c \in 0..(Len(AUDIO_CODECS) - 1),
        a \in {S_true, <<"f", "a", "l", "s", "e">>}, o \in OverrideTexts}

InitOptions == InitWith(OptionStores, {TRUE}, {TRUE})

NextOptions ==
    \/ Construct
    \/ MainSetup
    \/ \E text \in UrlTexts : _check_url(text)
    \/ start_download

SpecOptions == InitOptions /\ [][NextOptions]_vars

(***************************************************************************)
(* The first download with every progress report of the engine.            *)
(***************************************************************************)
ProgressInfos ==
    {HookInfo("downloading", PyInt(d), PyInt(t)) : d \in 0..MaxBytes, t \in 0..MaxBytes}
        \cup {HookInfo("downloading", PyInt(1), PyNone),
              HookInfo("downloading", PyInt(1), Missing),
              HookInfo("downloading", Missing, PyInt(1)),
              HookInfo("finished", PyInt(1), PyInt(1)),
              HookInfo("error", Missing, Missing)}

InitProgress == InitWith({SavedSettings}, {TRUE}, {TRUE})

NextProgress ==
    \/ Construct
    \/ MainSetup
    \/ \E text \in UrlTexts : _check_url(text)
    \/ start_download
    \/ w_check
    \/ w_get
    \/ w_timeout
    \/ \E i \in ProbeInfos : w_probe(i)
    \/ \E h \in ProgressInfos : w_hook(h)

SpecProgress == InitProgress /\ [][NextProgress]_vars

(***************************************************************************)
(* The claims.                                                             *)
(***************************************************************************)
\* every setting of the window is on disk and nothing waits in the cache
Flushed == cache = NoSettings /\ store = DumpedSettings(win)

\* C1: _quit writes and syncs the settings, then sets the shutdown flag, then
\* waits for the worker thread to end, then ends the application; the flag is
\* never set and the application never ended by quit while settings are unflushed.
C1_QuitOrder ==
    /\ uiPc \in {"construct", "constructed", "loop", "quit_set", "crashed"} => ~shutdown
    /\ uiPc \in {"quit_set", "quit_wait", "quit_app"} => Flushed
    /\ shutdown => Flushed
    /\ uiPc \in {"quit_wait", "quit_app"} => shutdown
    /\ uiPc = "quit_app" => WorkerEnded
    /\ exitedBy = "quit" => Flushed /\ shutdown /\ WorkerEnded
    /\ uiPc = "exited" /\ exitedBy # "quit" => ~shutdown

\* C1 witness: quit ran to its end after the worker had taken a job
C1_Witness == exitedBy = "quit" /\ uiPc = "exited" /\ taken # <<>>

\* C2: after an engine error no finished event is emitted for the job, and the
\* worker loop goes on: the thread has not ended unless shutdown was signalled.
C2_LoopContinuesAfterError ==
    /\ job.id \in failed => \A i \in 1..Len(emitted) : emitted[i].kind # "finished"
    /\ failed # {} /\ ~shutdown => ~WorkerEnded

\* the job dequeued last was processed to its end without an engine error
JobDone == job.id # 0 /\ wpc \in {"check", "get", "terminated"}

\* the title the claim gives the events of the current job
ClaimedTitle == IF info.title = Missing THEN "unknown title" ELSE info.title.v

\* C3: the events of a job come as started, progress events, finished: one
\* started event with the probed title or the placeholder comes first, a finished
\* report of the engine emits progress 100, and one finished event with the same
\* title ends the job before anything of a later job is emitted.
C3_EventOrder ==
    /\ \A i \in 1..Len(emitted) :
          /\ emitted[i].job = job.id
          /\ emitted[i].kind = "started" <=> i = 1
          /\ emitted[i].kind = "finished" => i = Len(emitted) /\ JobDone
          /\ emitted[i].kind \in {"started", "finished"} => emitted[i].v = ClaimedTitle
    /\ wpc = "download" => Len(emitted) >= 1
    /\ JobDone => Len(emitted) >= 2 /\ emitted[Len(emitted)].kind = "finished"
    /\ lastHook.info.status = "finished" =>
          /\ Len(lastHook.out) = 1
          /\ lastHook.out[1].kind = "progress" /\ lastHook.out[1].v = 100
          /\ emitted[Len(emitted)].kind = "progress" /\ emitted[Len(emitted)].v = 100
    /\ \A i \in 1..(Len(signals) - 1) :
          signals[i].job # signals[i + 1].job =>
              /\ signals[i].kind = "finished"
              /\ signals[i + 1].kind = "started"
              /\ signals[i].job < signals[i + 1].job

\* C3 witness: a second job without a title went from started through the
\* terminal 100 to finished
C3_Witness ==
    /\ JobDone
    /\ job.id = 2
    /\ info.title = Missing
    /\ Len(emitted) = 3
    /\ emitted[2].kind = "progress" /\ emitted[2].v = 100

\* floor(100 * d / t) clamped to 0..100
ClampedPercent(d, t) ==
    IF (100 * d) \div t > 100 THEN 100 ELSE (100 * d) \div t

\* C4: a downloading report with downloaded_bytes >= 0 and total_bytes > 0 emits
\* exactly one progress event, of value floor(100 * downloaded / total) clamped
\* to 0..100.
C4_ClampedFloor ==
    (/\ lastHook.info.status = "downloading"
     /\ lastHook.info.downloaded_bytes.t = "int"
     /\ lastHook.info.total_bytes.t = "int"
     /\ lastHook.info.total_bytes.v > 0)
    => /\ Len(lastHook.out) = 1
       /\ lastHook.out[1].kind = "progress"
       /\ lastHook.out[1].v = ClampedPercent(lastHook.info.downloaded_bytes.v,
                                             lastHook.info.total_bytes.v)

\* C5: once the shutdown flag is set the worker thread ends and quit completes,
\* with jobs queued or not; on the empty queue the poll times out without an
\* error and the next test of the flag ends run().
C5_ShutdownTerminates ==
    /\ shutdown ~> (WorkerEnded /\ uiPc = "exited" /\ exitedBy = "quit")
    /\ [][shutdown /\ wpc = "get" /\ queue = <<>> => wpc' \in {"get", "check"}]_vars
    /\ [][shutdown /\ wpc = "check" => wpc' \in {"check", "terminated"}]_vars

\* C5 witness: quit completed and run() returned while a job was still queued
C5_Witness ==
    /\ exitedBy = "quit"
    /\ uiPc = "exited"
    /\ wpc = "terminated"
    /\ queue # <<>>

\* C6: the worker starts the jobs in the order of their submission, each once;
\* a submission is on the queue with the step that makes it; every job on the
\* queue or taken from it has a non-empty stripped URL.
C6_FifoOnce ==
    /\ taken = [i \in 1..Len(taken) |-> i]
    /\ [i \in 1..Len(queue) |-> queue[i].id] = [i \in 1..Len(queue) |-> Len(taken) + i]
    /\ Len(taken) + Len(queue) = submitted
    /\ \A i \in 1..Len(queue) : queue[i].url # ""
    /\ job.id # 0 => job.url # "" /\ job.id = taken[Len(taken)]

\* C6 witness: two jobs were submitted and the worker has started the second
C6_Witness == taken = <<1, 2>> /\ job.id = 2 /\ wpc = "download"

\* the default the documentation gives a key, as the widget holds it
DocumentedDefault(k) ==
    CASE k = "video/resolution" -> win.video_resolution = PyInt(2)
      [] k = "video/format" -> win.video_format = PyInt(0)
      [] k = "audio/quality" -> win.audio_quality = PyInt(0)
      [] k = "audio/format" -> win.audio_format = PyInt(0)
      [] k = "audio/only" -> win.audio_only = PyBool(FALSE)
      [] k = "clipboard/monitor" -> win.monitor_clipboard = PyBool(FALSE)
      [] k = "output/name" -> win.output_name = PyStr(S_output_name)
      [] k = "expert/format" -> win.own_format = PyStr(<<>>)
      [] k = "window/x" -> win.geometry[1] = 0
      [] k = "window/y" -> win.geometry[2] = 0
      [] k = "window/width" -> win.geometry[3] = 440
      [] k = "window/height" -> win.geometry[4] = 440
      [] k = "url/last" -> win.last_url = PyStr(<<>>)
      [] OTHER -> TRUE

\* C7: with any recognized key absent from the backend apply_config completes
\* and the key's widget holds the documented default, the bool keys included.
C7_AbsentKeysGetDefaults ==
    (uiPc # "construct" /\ \E k \in Keys : store[k] = Absent)
    => /\ uiPc # "crashed"
       /\ \A k \in Keys : store[k] = Absent => DocumentedDefault(k)

\* C8: for a stored text _bool never raises, returns a bool, and returns true
\* exactly when the text parses as JSON true or is the text "true".
C8_BoolCoercion ==
    \A i \in 1..Len(boolCalls) :
        boolCalls[i].arg.t = "str" =>
        /\ boolCalls[i].ret.t = "bool"
        /\ boolCalls[i].ret.v <=>
              \/ json_loads(boolCalls[i].arg) = PyBool(TRUE)
              \/ boolCalls[i].arg = PyStr(S_true)

\* the format the claim derives from the selected mode
ClaimedFormat ==
    IF win.audio_only.v
    THEN AUDIO_CODECS[win.audio_format.v + 1] \o "/bestaudio/best"
    ELSE VIDEO_CONTAINERS[win.video_format.v + 1]
         \o "[height=" \o ToString(VIDEO_RESOLUTIONS[win.video_resolution.v + 1]) \o "]+"
         \o (IF VIDEO_CONTAINERS[win.video_format.v + 1] = "mp4" THEN "m4a" ELSE "bestaudio")
         \o "/bestvideo[height<=" \o ToString(VIDEO_RESOLUTIONS[win.video_resolution.v + 1])
         \o "]+bestaudio"

\* C9 as stated: an override that is present is the format field as it stands
\* in the UI; without an override the format is the derived one.
C9_OverrideVerbatim ==
    \A i \in 1..Len(queue) :
        IF strip(win.own_format.v) # <<>>
        THEN queue[i].options.format = Str(win.own_format.v)
        ELSE queue[i].options.format = ClaimedFormat

\* C9 as amended: the format field is the override with the whitespace around
\* it stripped when that leaves any text, and the derived format otherwise.
C9_OverrideStripped ==
    \A i \in 1..Len(queue) :
        IF strip(win.own_format.v) # <<>>
        THEN queue[i].options.format = Str(strip(win.own_format.v))
        ELSE queue[i].options.format = ClaimedFormat

\* C9 witness: a job was built while the override field held text with a space
\* before it
C9_Witness ==
    /\ queue # <<>>
    /\ win.own_format.v = <<" ", "b">>
    /\ queue[1].options.format = "b"

\* C10: the slot of a started or finished event ends without error and leaves
\* the status text with the title (and the progress at 1 for started), with or
\* without a tray icon.
C10_SlotsUpdateStatus ==
    /\ lastSlot.ev.kind = "started" =>
          /\ lastSlot.raised = "none"
          /\ win.status = "Downloading: " \o lastSlot.ev.v
          /\ win.progress = PyInt(1)
    /\ lastSlot.ev.kind = "finished" =>
          /\ lastSlot.raised = "none"
          /\ win.status = "Finished: " \o lastSlot.ev.v

=============================================================================
